---- MODULE Spec2Model ----
(***************************************************************************)
(* Third Eye MCP: the tool-call handler of server.py, the input ranges of  *)
(* types.py, and the capture / storage / latest tools it calls into.       *)
(*                                                                         *)
(* The event loop runs one handler at a time.  handle_call_tool has no     *)
(* await, so the only place where time passes inside a handler is the      *)
(* delay of capture / capture_region; the model splits the handler there   *)
(* (StartCall ... Wake) and nowhere else.                                  *)
(***************************************************************************)
EXTENDS Integers, Sequences, FiniteSets, TLC

VARIABLES queue, running, slot, clock, last, lastGood

vars == <<queue, running, slot, clock, last, lastGood>>

(***************************************************************************)
(* Bounds                                                                  *)
(***************************************************************************)
MaxQueue == 2
MaxClock == 10

(***************************************************************************)
(* Environment: what the screen, the ad service and the OS can produce     *)
(***************************************************************************)
Frames == {1, 2}
Ads == {"adA", "adB"}
\* a capture attempt: the primitive fails, or the screen shows one of the frames
\* and the ad service hands out one of the ads
Env(o, f, a) == [ok |-> o, frame |-> f, ad |-> a]
Envs == {Env(FALSE, 1, "adA"), Env(TRUE, 1, "adA"), Env(TRUE, 2, "adB")}

DisplayInfo(i, n, px, py, w, h, p) ==
    [index |-> i, name |-> n, x |-> px, y |-> py, width |-> w, height |-> h,
     is_primary |-> p]

Displays ==
    << DisplayInfo(0, "primary", 0, 0, 1920, 1080, TRUE),
       DisplayInfo(1, "second", 1920, 0, 1366, 768, FALSE) >>

(***************************************************************************)
(* Argument bags: a JSON object (the keys present and their values) or     *)
(* null.  Fields of val that are not in has are never read.                *)
(***************************************************************************)
NoVals ==
    [displayIndex |-> 0, maxWidth |-> 0, delay |-> 0, instant |-> FALSE,
     x |-> 0, y |-> 0, width |-> 0, height |-> 0]

EmptyBag == [null |-> FALSE, has |-> {}, val |-> NoVals]
NullBag == [null |-> TRUE, has |-> {}, val |-> NoVals]

With(bag, k, v) == [bag EXCEPT !.has = @ \cup {k}, !.val[k] = v]

Without(bag, k) == [bag EXCEPT !.has = @ \ {k}, !.val[k] = NoVals[k]]

\* dict.get(k, default)
Get(bag, k, default) == IF k \in bag.has THEN bag.val[k] ELSE default

DisplayIndexVals == {-1, 1, 2}
MaxWidthVals == {50, 100, 800, 4096, 4097}
DelayVals == {-1, 5, 20}

CaptureBags ==
    {EmptyBag, NullBag}
    \cup {With(EmptyBag, "displayIndex", d) : d \in DisplayIndexVals}
    \cup {With(EmptyBag, "maxWidth", m) : m \in MaxWidthVals}
    \cup {With(With(EmptyBag, "displayIndex", 1), "maxWidth", 800)}
    \cup {With(EmptyBag, "delay", d) : d \in DelayVals}
    \cup {With(With(EmptyBag, "delay", 10), "instant", TRUE)}

RegionBase ==
    With(With(With(With(EmptyBag, "x", 0), "y", 0), "width", 200), "height", 100)

RegionBags ==
    {RegionBase, NullBag}
    \cup {With(RegionBase, "x", v) : v \in {-1, 5000}}
    \cup {With(RegionBase, "y", -1), With(RegionBase, "width", 0),
          With(RegionBase, "height", 0)}
    \cup {Without(RegionBase, k) : k \in {"y", "height"}}
    \cup {Without(With(RegionBase, "x", -1), "height")}
    \cup {With(RegionBase, "maxWidth", m) : m \in {100, 4097}}
    \cup {With(RegionBase, "delay", d) : d \in {5, 20}}
    \cup {With(With(RegionBase, "delay", 5), "instant", TRUE)}

Request(n, a) == [name |-> n, arguments |-> a]

Requests ==
    {Request("screen.list_displays", a) : a \in {EmptyBag, NullBag}}
    \cup {Request("screen.latest", EmptyBag)}
    \cup {Request("screen.capture", a) : a \in CaptureBags}
    \cup {Request("screen.capture_region", a) : a \in RegionBags}
    \cup {Request("screen.record", EmptyBag), Request("", NullBag)}

\* requests that arrive while the loop is busy with a delayed capture
QueuedRequests ==
    { Request("screen.latest", EmptyBag),
      Request("screen.list_displays", EmptyBag),
      Request("screen.capture", With(EmptyBag, "maxWidth", 800)),
      Request("screen.capture_region", With(RegionBase, "delay", 5)) }

(***************************************************************************)
(* Values                                                                  *)
(***************************************************************************)
NoDisplayIndex == -1

NoImage == [frame |-> 0, w |-> 0, h |-> 0]

CaptureMetadata(w, h, di, ts, sp) ==
    [width |-> w, height |-> h, display_index |-> di, timestamp |-> ts,
     sponsored |-> sp]

NoMetadata == CaptureMetadata(0, 0, NoDisplayIndex, 0, "")

StoredCapture(img, meta, now) ==
    [image_base64 |-> img, metadata |-> meta, captured_at |-> now]

\* the dicts the tools return
Dict(ks, img, meta, err, ds) ==
    [keys |-> ks, image |-> img, metadata |-> meta, error |-> err, displays |-> ds]

NoDict == Dict({}, NoImage, NoMetadata, "", <<>>)

\* outcome of a call: a returned value or a raised exception
Return(v) == [raised |-> FALSE, msg |-> "", value |-> v]
Raise(m) == [raised |-> TRUE, msg |-> m, value |-> NoDict]

NoCaptureMessage == "No capture available"


(***************************************************************************)
(* types.py: the declared input ranges                                     *)
(***************************************************************************)
CaptureInput(di, mw, d, i) ==
    [display_index |-> di, max_width |-> mw, delay |-> d, instant |-> i]

CaptureInputValidNoUpperWidth(a) ==
    /\ a.display_index >= 0
    /\ a.max_width >= 100
    /\ a.delay >= 0 /\ a.delay <= 10

CaptureInputValid(a) ==
    /\ a.display_index >= 0
    /\ a.max_width >= 100 /\ a.max_width <= 4096
    /\ a.delay >= 0 /\ a.delay <= 10

CaptureRegionInput(px, py, w, h, mw, d, i) ==
    [x |-> px, y |-> py, width |-> w, height |-> h, max_width |-> mw,
     delay |-> d, instant |-> i]

CaptureRegionInputValid(a) ==
    /\ a.x >= 0 /\ a.y >= 0
    /\ a.width > 0 /\ a.height > 0
    /\ a.max_width >= 100 /\ a.max_width <= 4096
    /\ a.delay >= 0 /\ a.delay <= 10

(***************************************************************************)
(* The tools and services behind the handler (tools/*.py, services/*.py)   *)
(***************************************************************************)
\* downsize so that width <= max_width, aspect ratio kept; no-op if narrower
Resize(w, h, max_width) ==
    IF w > max_width
    THEN [w |-> max_width, h |-> (h * max_width) \div w]
    ELSE [w |-> w, h |-> h]

\* PNG + base64 of the final pixels
Encode(frame, w, h) == [frame |-> frame, w |-> w, h |-> h]

\* the wait before the capture: delay seconds unless instant
Sleeps(a) == a.delay > 0 /\ ~a.instant

\* StorageService.put: replaces the whole slot
put(st, img, meta, now) == << StoredCapture(img, meta, now) >>

\* what a tool call leaves behind: its outcome, the slot, whether the capture
\* primitive was invoked, and the capture it produced (if any)
Effect(o, st, b, m) == [out |-> o, slot |-> st, backend |-> b, made |-> m]

Captured(img, meta, st, now) ==
    Effect(Return(Dict({"image", "metadata"}, img, meta, "", <<>>)),
           put(st, img, meta, now), TRUE,
           << [image |-> img, metadata |-> meta] >>)

list_displays(st, env) ==
    IF env.ok
    THEN Effect(Return(Dict({}, NoImage, NoMetadata, "", Displays)), st, FALSE, <<>>)
    ELSE Effect(Raise("BackendError"), st, FALSE, <<>>)

capture(a, st, env, now) ==
    IF ~CaptureInputValid(a)
    THEN Effect(Raise("ValidationError"), st, FALSE, <<>>)
    ELSE IF a.display_index >= Len(Displays)
    THEN Effect(Raise("InvalidDisplayError"), st, TRUE, <<>>)
    ELSE IF ~env.ok
    THEN Effect(Raise("BackendError"), st, TRUE, <<>>)
    ELSE LET d == Displays[a.display_index + 1]
             r == Resize(d.width, d.height, a.max_width)
         IN Captured(Encode(env.frame, r.w, r.h),
                     CaptureMetadata(r.w, r.h, a.display_index, now, env.ad),
                     st, now)

\* the region overlaps at least one display
OnScreen(a) ==
    \E i \in 1..Len(Displays) :
        /\ a.x < Displays[i].x + Displays[i].width
        /\ a.x + a.width > Displays[i].x
        /\ a.y < Displays[i].y + Displays[i].height
        /\ a.y + a.height > Displays[i].y

capture_region(a, st, env, now) ==
    IF ~CaptureRegionInputValid(a)
    THEN Effect(Raise("ValidationError"), st, FALSE, <<>>)
    ELSE IF ~OnScreen(a)
    THEN Effect(Raise("InvalidRegionError"), st, TRUE, <<>>)
    ELSE IF ~env.ok
    THEN Effect(Raise("BackendError"), st, TRUE, <<>>)
    ELSE LET r == Resize(a.width, a.height, a.max_width)
         IN Captured(Encode(env.frame, r.w, r.h),
                     CaptureMetadata(r.w, r.h, NoDisplayIndex, now, env.ad),
                     st, now)

latest(st) ==
    IF st = <<>>
    THEN Effect(Return(Dict({"error"}, NoImage, NoMetadata, NoCaptureMessage, <<>>)),
                st, FALSE, <<>>)
    ELSE Effect(Return(Dict({"image", "metadata"}, st[1].image_base64,
                            st[1].metadata, "", <<>>)),
                st, FALSE, <<>>)


(***************************************************************************)
(* server.py: content blocks and JSON text                                 *)
(***************************************************************************)
\* a text: a JSON object (its top-level keys and what they hold), a JSON
\* array, or a plain string
Text(k, ks, p, err, meta, ds) ==
    [kind |-> k, keys |-> ks, plain |-> p, error |-> err, metadata |-> meta,
     displays |-> ds]

NoText == Text("none", {}, "", "", NoMetadata, <<>>)

MetadataKeys(meta) ==
    {"width", "height", "timestamp", "sponsored"}
    \cup (IF meta.display_index = NoDisplayIndex THEN {} ELSE {"displayIndex"})

\* json.dumps of the values the handler serialises
JsonError(msg) == Text("object", {"error"}, "", msg, NoMetadata, <<>>)
JsonMetadata(meta) == Text("object", MetadataKeys(meta), "", "", meta, <<>>)
JsonList(ds) == Text("array", {}, "", "", NoMetadata, ds)
JsonDict(d) == Text("object", d.keys, "", d.error, d.metadata, <<>>)
PlainText(p) == Text("plain", {}, p, "", NoMetadata, <<>>)

TextContent(t) == [type |-> "text", data |-> NoImage, text |-> t]
ImageContent(img) == [type |-> "image", data |-> img, text |-> NoText]

\* the try body either yields the blocks to return or raises
Blocks(bs) == [raised |-> FALSE, msg |-> "", blocks |-> bs]
Throw(m) == [raised |-> TRUE, msg |-> m, blocks |-> <<>>]

\* what handle_call_tool hands back to the transport
\* (outcome "raised": the exception went on to the transport loop)
Returned(bs) == [outcome |-> "returned", blocks |-> bs]

(***************************************************************************)
(* server.py: handle_call_tool                                             *)
(***************************************************************************)
\* arguments = arguments or {}
OrEmpty(arguments) ==
    IF arguments.null \/ arguments.has = {} THEN EmptyBag ELSE arguments

RouteLatestToCapture(name) ==
    CASE name = "screen.list_displays" -> "list_displays"
      [] name = "screen.capture" -> "capture"
      [] name = "screen.capture_region" -> "capture_region"
      [] name = "screen.latest" -> "capture"
      [] OTHER -> "unknown"

\* the if / elif chain on the tool name
Route(name) ==
    CASE name = "screen.list_displays" -> "list_displays"
      [] name = "screen.capture" -> "capture"
      [] name = "screen.capture_region" -> "capture_region"
      [] name = "screen.latest" -> "latest"
      [] OTHER -> "unknown"

CaptureArgsNoInstant(arguments) ==
    CaptureInput(Get(arguments, "displayIndex", 0),
                 Get(arguments, "maxWidth", 1920),
                 Get(arguments, "delay", 0),
                 FALSE)

CaptureArgsDefaultWidth(arguments) ==
    CaptureInput(Get(arguments, "displayIndex", 0),
                 1920,
                 Get(arguments, "delay", 0),
                 Get(arguments, "instant", FALSE))

\* the keyword arguments of the capture(...) call
CaptureArgs(arguments) ==
    CaptureInput(Get(arguments, "displayIndex", 0),
                 Get(arguments, "maxWidth", 1920),
                 Get(arguments, "delay", 0),
                 Get(arguments, "instant", FALSE))

RequiredKeys == <<"x", "y", "width", "height">>

\* arguments["x"], arguments["y"], ... : the first missing key raises KeyError
MissingKey(arguments) ==
    IF \A i \in 1..Len(RequiredKeys) : RequiredKeys[i] \in arguments.has
    THEN ""
    ELSE RequiredKeys[CHOOSE i \in 1..Len(RequiredKeys) :
                          /\ RequiredKeys[i] \notin arguments.has
                          /\ \A j \in 1..(i - 1) : RequiredKeys[j] \in arguments.has]

\* str(KeyError(k))
KeyErrorText(k) == "'" \o k \o "'"

\* the keyword arguments of the capture_region(...) call
RegionArgs(arguments) ==
    CaptureRegionInput(arguments.val.x, arguments.val.y,
                       arguments.val.width, arguments.val.height,
                       Get(arguments, "maxWidth", 1920),
                       Get(arguments, "delay", 0),
                       Get(arguments, "instant", FALSE))

\* result["image"], result["metadata"] -> [ImageContent, TextContent]
ImageAndMetadata(result) ==
    IF "image" \notin result.keys THEN Throw(KeyErrorText("image"))
    ELSE IF "metadata" \notin result.keys THEN Throw(KeyErrorText("metadata"))
    ELSE Blocks(<< ImageContent(result.image),
                   TextContent(JsonMetadata(result.metadata)) >>)

ListDisplaysBlocks(result) == Blocks(<< TextContent(JsonList(result.displays)) >>)

CaptureBlocks(result) == ImageAndMetadata(result)

RegionBlocks(result) == ImageAndMetadata(result)

LatestBlocksNoErrorCheck(result) == ImageAndMetadata(result)

LatestBlocksImageOnly(result) ==
    IF "error" \in result.keys
    THEN Blocks(<< TextContent(JsonDict(result)) >>)
    ELSE Blocks(<< ImageContent(result.image) >>)

LatestBlocksFreshMetadata(result) ==
    IF "error" \in result.keys
    THEN Blocks(<< TextContent(JsonDict(result)) >>)
    ELSE Blocks(<< ImageContent(result.image),
                   TextContent(JsonMetadata(
                       [result.metadata EXCEPT !.sponsored = "adA"])) >>)

LatestBlocks(result) ==
    IF "error" \in result.keys
    THEN Blocks(<< TextContent(JsonDict(result)) >>)
    ELSE ImageAndMetadata(result)

UnknownBlocks(name) == Blocks(<< TextContent(PlainText("Unknown tool: " \o name)) >>)

EscapedWith(msg) == [outcome |-> "raised", blocks |-> <<>>]

\* except Exception as e: the structured error object
ExceptException(msg) == Returned(<< TextContent(JsonError(msg)) >>)

\* the tool a route calls, with the arguments the handler passes
CallTool(route, arguments, st, env, now) ==
    CASE route = "list_displays" -> list_displays(st, env)
      [] route = "capture" -> capture(CaptureArgs(arguments), st, env, now)
      [] route = "capture_region" ->
            IF MissingKey(arguments) # ""
            THEN Effect(Raise(KeyErrorText(MissingKey(arguments))), st, FALSE, <<>>)
            ELSE capture_region(RegionArgs(arguments), st, env, now)
      [] route = "latest" -> latest(st)
      [] OTHER -> Effect(Return(NoDict), st, FALSE, <<>>)

\* the blocks a route builds from its tool's result
Shape(route, name, result) ==
    CASE route = "list_displays" -> ListDisplaysBlocks(result)
      [] route = "capture" -> CaptureBlocks(result)
      [] route = "capture_region" -> RegionBlocks(result)
      [] route = "latest" -> LatestBlocks(result)
      [] OTHER -> UnknownBlocks(name)

\* one whole call: the response, and what the call left behind
handle_call_tool(name, arguments, st, env, now) ==
    LET route == Route(name)
        e == CallTool(route, OrEmpty(arguments), st, env, now)
        body == IF e.out.raised THEN Throw(e.out.msg)
                ELSE Shape(route, name, e.out.value)
    IN [resp |-> IF body.raised THEN ExceptException(body.msg)
                 ELSE Returned(body.blocks),
        raised |-> body.raised, msg |-> body.msg,
        slot |-> e.slot, backend |-> e.backend, made |-> e.made]

\* the call suspends in its delay before it captures
WillSleep(name, arguments) ==
    LET route == Route(name)
        args == OrEmpty(arguments)
    IN CASE route = "capture" ->
              CaptureInputValid(CaptureArgs(args)) /\ Sleeps(CaptureArgs(args))
         [] route = "capture_region" ->
              /\ MissingKey(args) = ""
              /\ CaptureRegionInputValid(RegionArgs(args))
              /\ Sleeps(RegionArgs(args))
         [] OTHER -> FALSE

SleepFor(name, arguments) ==
    IF Route(name) = "capture" THEN CaptureArgs(OrEmpty(arguments)).delay
    ELSE RegionArgs(OrEmpty(arguments)).delay

(***************************************************************************)
(* The state machine                                                       *)
(***************************************************************************)
Init ==
    /\ queue = <<>>
    /\ running = <<>>
    /\ slot = <<>>
    /\ clock = 0
    /\ last = <<>>
    /\ lastGood = <<>>

\* the call that entered the handler at startedAt returns now
Complete(req, startedAt) ==
    \E env \in Envs :
        LET h == handle_call_tool(req.name, req.arguments, slot, env, clock)
        IN /\ slot' = h.slot
           /\ last' = << [req |-> req, resp |-> h.resp, raised |-> h.raised,
                          msg |-> h.msg, backend |-> h.backend,
                          waited |-> clock - startedAt] >>
           /\ lastGood' = IF h.made = <<>> THEN lastGood ELSE h.made
           /\ running' = <<>>

\* the handler is entered: it runs to its return, or to its delay
StartCall(req) ==
    IF WillSleep(req.name, req.arguments)
    THEN /\ running' = << [req |-> req, startedAt |-> clock,
                           wakeAt |-> clock + SleepFor(req.name, req.arguments)] >>
         /\ UNCHANGED <<slot, last, lastGood>>
    ELSE Complete(req, clock)

\* a request arrives at an idle loop and is dispatched at once
Arrive ==
    /\ running = <<>>
    /\ queue = <<>>
    /\ \E req \in Requests : StartCall(req)
    /\ UNCHANGED <<queue, clock>>

\* a request arrives while a handler is in its delay: it waits in the queue
Receive ==
    /\ running # <<>>
    /\ Len(queue) < MaxQueue
    /\ \E req \in QueuedRequests : queue' = Append(queue, req)
    /\ UNCHANGED <<running, slot, clock, last, lastGood>>

\* the loop takes the next queued request once no handler is running
Dispatch ==
    /\ running = <<>>
    /\ queue # <<>>
    /\ StartCall(Head(queue))
    /\ queue' = Tail(queue)
    /\ UNCHANGED clock

\* time passes, by one of the delays a caller may ask for
Tick ==
    /\ \E d \in DelayVals : d > 0 /\ clock + d <= MaxClock /\ clock' = clock + d
    /\ UNCHANGED <<queue, running, slot, last, lastGood>>

\* the delay has elapsed: the handler goes on to capture and returns
Wake ==
    /\ running # <<>>
    /\ clock >= running[1].wakeAt
    /\ Complete(running[1].req, running[1].startedAt)
    /\ UNCHANGED <<queue, clock>>

Next == Arrive \/ Receive \/ Dispatch \/ Tick \/ Wake

Spec == Init /\ [][Next]_vars


(***************************************************************************)
(* What the claims speak about                                             *)
(***************************************************************************)
CaptureNames == {"screen.capture", "screen.capture_region"}

\* {error: <string>} as the only block
IsErrorPayload(resp) ==
    /\ resp.outcome = "returned"
    /\ Len(resp.blocks) = 1
    /\ resp.blocks[1].type = "text"
    /\ resp.blocks[1].text.kind = "object"
    /\ resp.blocks[1].text.keys = {"error"}

\* an image block followed by its metadata object
IsImagePayload(resp) ==
    /\ resp.outcome = "returned"
    /\ Len(resp.blocks) = 2
    /\ resp.blocks[1].type = "image"
    /\ resp.blocks[2].type = "text"
    /\ resp.blocks[2].text.kind = "object"
    /\ {"width", "height", "timestamp"} \subseteq resp.blocks[2].text.keys
    /\ "error" \notin resp.blocks[2].text.keys

\* the display list as the only block
IsDisplayList(resp) ==
    /\ resp.outcome = "returned"
    /\ Len(resp.blocks) = 1
    /\ resp.blocks[1].type = "text"
    /\ resp.blocks[1].text.kind = "array"

HasImage(resp) == \E i \in 1..Len(resp.blocks) : resp.blocks[i].type = "image"

HasErrorField(resp) ==
    \E i \in 1..Len(resp.blocks) :
        resp.blocks[i].type = "text" /\ "error" \in resp.blocks[i].text.keys

ErrorOf(resp) == resp.blocks[1].text.error
ImageOf(resp) == resp.blocks[1].data
MetadataOf(resp) == resp.blocks[2].text.metadata

IsSuccessfulCapture(c) == c.req.name \in CaptureNames /\ IsImagePayload(c.resp)

\* the arguments as the caller gave them, with the documented defaults
Given(req, k, default) ==
    IF req.arguments.null \/ k \notin req.arguments.has
    THEN default ELSE req.arguments.val[k]

\* some argument the caller gave lies outside its declared range
OutOfRange(req) ==
    \/ Given(req, "maxWidth", 1920) < 100
    \/ Given(req, "maxWidth", 1920) > 4096
    \/ Given(req, "delay", 0) < 0
    \/ Given(req, "delay", 0) > 10
    \/ req.name = "screen.capture" /\ Given(req, "displayIndex", 0) < 0
    \/ /\ req.name = "screen.capture_region"
       /\ \/ Given(req, "x", 0) < 0
          \/ Given(req, "y", 0) < 0
          \/ Given(req, "width", 1) <= 0
          \/ Given(req, "height", 1) <= 0

\* capture_region was given x, y, width and height
RequiredGiven(req) ==
    req.name = "screen.capture_region"
        => ~req.arguments.null /\ {"x", "y", "width", "height"} \subseteq req.arguments.has

Abs(n) == IF n < 0 THEN -n ELSE n

(***************************************************************************)
(* C1: every call returns a response, no exception escapes the handler;    *)
(* when the tool call raised (validation, invalid display or region,       *)
(* backend failure, missing argument) the response is {error: <message>}   *)
(* carrying the message of the exception.                                  *)
(***************************************************************************)
C1_NoExceptionEscapes ==
    last # <<>> =>
        /\ last[1].resp.outcome = "returned"
        /\ last[1].raised =>
              /\ IsErrorPayload(last[1].resp)
              /\ ErrorOf(last[1].resp) = last[1].msg

\* a capture_region call with a null bag raised KeyError and was answered
C1_Witness ==
    /\ last # <<>>
    /\ last[1].req.name = "screen.capture_region"
    /\ last[1].req.arguments.null
    /\ last[1].raised
    /\ last[1].msg = "'x'"

(***************************************************************************)
(* C2: every response, also to a tool name that is none of the four, is a  *)
(* success payload (image + metadata, or the display list of               *)
(* list_displays) or an error object with an `error` string field, and     *)
(* never carries both an image and an `error` field.                       *)
(***************************************************************************)
C2_TwoShapes ==
    last # <<>> =>
        /\ \/ IsImagePayload(last[1].resp)
           \/ last[1].req.name = "screen.list_displays" /\ IsDisplayList(last[1].resp)
           \/ IsErrorPayload(last[1].resp)
        /\ ~(HasImage(last[1].resp) /\ HasErrorField(last[1].resp))

(***************************************************************************)
(* C3: a latest call that immediately follows a successful capture or      *)
(* capture_region returns the image and the metadata (width, height,       *)
(* displayIndex, timestamp, sponsored) of that capture's own response.     *)
(***************************************************************************)
C3_LatestRepeatsCapture ==
    [][ ( /\ last # <<>>
          /\ IsSuccessfulCapture(last[1])
          /\ last' # last
          /\ last'[1].req.name = "screen.latest" )
        => /\ IsImagePayload(last'[1].resp)
           /\ ImageOf(last'[1].resp) = ImageOf(last[1].resp)
           /\ MetadataOf(last'[1].resp).width = MetadataOf(last[1].resp).width
           /\ MetadataOf(last'[1].resp).height = MetadataOf(last[1].resp).height
           /\ MetadataOf(last'[1].resp).display_index
                 = MetadataOf(last[1].resp).display_index
           /\ MetadataOf(last'[1].resp).timestamp = MetadataOf(last[1].resp).timestamp
           /\ MetadataOf(last'[1].resp).sponsored = MetadataOf(last[1].resp).sponsored
      ]_vars

\* latest answered with the second ad's capture, taken after time had passed
C3_Witness ==
    /\ last # <<>>
    /\ last[1].req.name = "screen.latest"
    /\ IsImagePayload(last[1].resp)
    /\ MetadataOf(last[1].resp).sponsored = "adB"
    /\ MetadataOf(last[1].resp).timestamp > 0

(***************************************************************************)
(* C4: the stored slot changes only in a step that completes a successful  *)
(* capture or capture_region, and then holds that capture; list_displays,  *)
(* latest, an unknown tool and every failed capture leave it as it was.    *)
(***************************************************************************)
C4_SlotChangesOnlyOnCapture ==
    [][ slot' # slot
        => /\ last' # last
           /\ IsSuccessfulCapture(last'[1])
           /\ slot' = << StoredCapture(ImageOf(last'[1].resp),
                                       MetadataOf(last'[1].resp),
                                       MetadataOf(last'[1].resp).timestamp) >>
      ]_vars

\* a capture failed in the backend after an earlier one had succeeded
C4_Witness ==
    /\ slot # <<>>
    /\ last # <<>>
    /\ last[1].req.name \in CaptureNames
    /\ last[1].raised
    /\ last[1].msg = "BackendError"

(***************************************************************************)
(* C5: as long as no capture or capture_region has succeeded, latest       *)
(* returns {error: <no-capture-available message>} without an image block  *)
(* and does not raise.                                                     *)
(***************************************************************************)
C5_LatestEmptyState ==
    (last # <<>> /\ last[1].req.name = "screen.latest" /\ lastGood = <<>>)
        => /\ IsErrorPayload(last[1].resp)
           /\ ErrorOf(last[1].resp) = NoCaptureMessage
           /\ ~HasImage(last[1].resp)
           /\ ~last[1].raised

C5_Witness ==
    /\ last # <<>>
    /\ last[1].req.name = "screen.latest"
    /\ lastGood = <<>>
    /\ clock > 0

C7_QueuedRequestNotBlocked ==
    ( /\ running # <<>>
      /\ clock < running[1].wakeAt
      /\ queue # <<>> )
        => ENABLED Dispatch

(***************************************************************************)
(* C8: under every interleaving of delayed captures, queued requests and   *)
(* latest calls, a latest response is either the empty state or the image  *)
(* together with the metadata of one single successful capture, and the    *)
(* slot never holds more than one capture.                                 *)
(***************************************************************************)
C8_LatestIsOneWholeCapture ==
    /\ Len(slot) <= 1
    /\ (last # <<>> /\ last[1].req.name = "screen.latest")
          => IF IsErrorPayload(last[1].resp)
             THEN lastGood = <<>> /\ ErrorOf(last[1].resp) = NoCaptureMessage
             ELSE /\ IsImagePayload(last[1].resp)
                  /\ lastGood # <<>>
                  /\ ImageOf(last[1].resp) = lastGood[1].image
                  /\ MetadataOf(last[1].resp) = lastGood[1].metadata

\* latest was served from the queue behind a delayed capture, another
\* request still waiting behind it
C8_Witness ==
    /\ last # <<>>
    /\ last[1].req.name = "screen.latest"
    /\ IsImagePayload(last[1].resp)
    /\ running = <<>>
    /\ queue # <<>>

(***************************************************************************)
(* C9: in a capture or capture_region call that requests the capture from  *)
(* the backend, instant = true means no time has passed since the call     *)
(* was entered, whatever the delay (delay = 10 included); instant = false  *)
(* means at least delay seconds have passed.                               *)
(***************************************************************************)
C9_InstantSkipsDelay ==
    (last # <<>> /\ last[1].req.name \in CaptureNames /\ last[1].backend)
        => IF Given(last[1].req, "instant", FALSE)
           THEN last[1].waited = 0
           ELSE last[1].waited >= Given(last[1].req, "delay", 0)

C9_Witness ==
    /\ last # <<>>
    /\ last[1].req.name = "screen.capture"
    /\ Given(last[1].req, "instant", FALSE)
    /\ Given(last[1].req, "delay", 0) = 10
    /\ last[1].backend
    /\ last[1].waited = 0
    /\ IsImagePayload(last[1].resp)

(***************************************************************************)
(* C10: a successful capture of an existing display with maxWidth in       *)
(* [100, 4096] returns metadata with width <= maxWidth, the raw size when  *)
(* the display is no wider than maxWidth, a height within one pixel of the *)
(* raw aspect ratio, width and height those of the image returned, and the *)
(* displayIndex asked for; 1920x1080 with maxWidth 800 gives 800x450.      *)
(***************************************************************************)
C10_ResizeKeepsAspect ==
    (last # <<>> /\ last[1].req.name = "screen.capture" /\ IsImagePayload(last[1].resp))
        => LET mw == Given(last[1].req, "maxWidth", 1920)
               di == Given(last[1].req, "displayIndex", 0)
               raw == Displays[di + 1]
               m == MetadataOf(last[1].resp)
               img == ImageOf(last[1].resp)
           IN /\ di >= 0 /\ di < Len(Displays)
              /\ mw >= 100 /\ mw <= 4096
              /\ m.width <= mw
              /\ raw.width <= mw => (m.width = raw.width /\ m.height = raw.height)
              /\ raw.width > mw => m.width = mw
              /\ Abs(m.height * raw.width - raw.height * m.width) < raw.width
              /\ img.w = m.width /\ img.h = m.height
              /\ m.display_index = di
              /\ (raw.width = 1920 /\ raw.height = 1080 /\ mw = 800)
                    => (m.width = 800 /\ m.height = 450)

C10_Witness ==
    /\ last # <<>>
    /\ last[1].req.name = "screen.capture"
    /\ IsImagePayload(last[1].resp)
    /\ Given(last[1].req, "maxWidth", 1920) = 800
    /\ Given(last[1].req, "displayIndex", 0) = 1
    /\ MetadataOf(last[1].resp).width = 800
    /\ MetadataOf(last[1].resp).height = 449

====
